---- MODULE Spec2Model ----
(***************************************************************************)
(* Model of src/main.py: an IPTV playlist aggregator.  main() loads the     *)
(* requested channel names and their groups, fetches every source in order, *)
(* parses each playlist, matches the requested names against the entries,   *)
(* and writes simple.m3u with rewritten metadata.                           *)
(*                                                                          *)
(* A Python str is a sequence of one-character strings, so that slicing,    *)
(* str.strip, str.split, str.splitlines and the regular expressions of the  *)
(* source are computed character by character as Python computes them.      *)
(***************************************************************************)
EXTENDS Naturals, Sequences, FiniteSets

VARIABLES
    pc,                   \* position of the run (or of the single call under study)
    channel_groups,       \* channels.json: the 'channel_groups' list
    sources,              \* sources.json: the 'sources' list
    channel_list,         \* load_channels: requested names, in file order
    channel_to_group,     \* load_channels: name -> group title
    duplicate_channels,   \* load_channels: name -> titles recorded as duplicates
    src_idx,              \* find_channels: number of sources already iterated
    fetched,              \* history: what fetch_raw_m3u returned for each iterated source
    found_channel_urls,   \* find_channels: name -> list of URLs (a defaultdict(list))
    channel_metadata_map, \* find_channels: name -> metadata line
    found_channels,       \* find_channels: set of names found
    missing_channel_list, \* find_channels: names never found, in list order
    simple_m3u,           \* generate_m3u_file: the lines written to simple.m3u
    emitted,              \* history: for each entry written, the loop's channel_name and i
    report,               \* print_report: the numbers printed
    m3u_text,             \* parse_m3u: argument
    parsed_channels,      \* parse_m3u: return value
    channel_name,         \* is_channel_match: argument
    metadata,             \* is_channel_match / rewriting: argument
    is_match,             \* is_channel_match: return value
    group_title,          \* set_group_title: argument
    source_index,         \* generate_unique_tvg_name: argument
    new_metadata          \* rewriting: return value

vars == <<pc, channel_groups, sources, channel_list, channel_to_group,
          duplicate_channels, src_idx, fetched, found_channel_urls,
          channel_metadata_map, found_channels, missing_channel_list,
          simple_m3u, emitted, report, m3u_text, parsed_channels,
          channel_name, metadata, is_match, group_title, source_index,
          new_metadata>>

runVars == <<channel_groups, sources, channel_list, channel_to_group,
             duplicate_channels, src_idx, fetched, found_channel_urls,
             channel_metadata_map, found_channels, missing_channel_list,
             simple_m3u, emitted, report>>

parseVars == <<m3u_text, parsed_channels>>

matchVars == <<channel_name, is_match>>

rewriteVars == <<group_title, source_index, new_metadata>>

\* A character outside ASCII is written as its code point: "U+6E90" is one character.

\* Python's None.
None == <<"None">>

-----------------------------------------------------------------------------
(* Characters and the str methods the source uses.                          *)

\* str.strip() and the regular expression class \s.
Whitespace == {" ", "\t", "\n", "\r", "\f"}

\* Line boundaries of str.splitlines().
LineBreaks == {"\n", "\r", "\f"}

UpperCase == <<"A", "B", "C", "D", "E", "F", "G", "H", "I", "J", "K", "L", "M", "N", "O", "P", "Q", "R", "S", "T", "U", "V", "W", "X", "Y", "Z">>

LowerCase == <<"a", "b", "c", "d", "e", "f", "g", "h", "i", "j", "k", "l", "m", "n", "o", "p", "q", "r", "s", "t", "u", "v", "w", "x", "y", "z">>

Digit == <<"0", "1", "2", "3", "4", "5", "6", "7", "8", "9">>

Range(s) == {s[i] : i \in 1..Len(s)}

\* The class \w of a str pattern: letters (CJK ideographs included), digits, '_'.
WordChars == Range(UpperCase) \cup Range(LowerCase) \cup Range(Digit) \cup ({"_"} \cup Range(<<"U+9891", "U+9053", "U+6E90">>))

IsWord(c) == c \in WordChars

\* Case folding of one character, as re.IGNORECASE compares.
ToLower ==
    [c \in Range(UpperCase) |->
        LowerCase[CHOOSE i \in 1..Len(UpperCase) : UpperCase[i] = c]]

LowerChar(c) == IF c \in DOMAIN ToLower THEN ToLower[c] ELSE c

Min(S) == CHOOSE x \in S : \A y \in S : x <= y

Max(S) == CHOOSE x \in S : \A y \in S : y <= x

\* the element of a one-element set; Only({F(x) : x \in {e}}) is F(e) with e
\* evaluated once
Only(S) == CHOOSE x \in S : TRUE

\* s[from:] of Python, 1-based.
Tail_(s, from) == SubSeq(s, from, Len(s))

\* whether pattern text p stands at position i of s
At(s, i, p) ==
    i >= 1 /\ i + Len(p) - 1 <= Len(s) /\ \A k \in 1..Len(p) : s[i + k - 1] = p[k]

\* the same under re.IGNORECASE
AtIC(s, i, p) ==
    /\ i >= 1 /\ i + Len(p) - 1 <= Len(s)
    /\ \A k \in 1..Len(p) : LowerChar(s[i + k - 1]) = LowerChar(p[k])

\* str.startswith
StartsWith(s, p) == At(s, 1, p)

\* str.strip()
Strip(s) ==
    LET keep == {i \in 1..Len(s) : s[i] \notin Whitespace}
    IN  IF keep = {} THEN <<>> ELSE SubSeq(s, Min(keep), Max(keep))

\* str.splitlines(): "\r\n" is one boundary; no empty last line after a final boundary.
RECURSIVE SplitLinesFrom(_, _)
SplitLinesFrom(s, from) ==
    LET brk == {i \in from..Len(s) : s[i] \in LineBreaks}
    IN  IF from > Len(s) THEN <<>>
        ELSE IF brk = {} THEN <<Tail_(s, from)>>
        ELSE LET i == Min(brk)
                 j == IF s[i] = "\r" /\ i < Len(s) /\ s[i + 1] = "\n" THEN i + 2 ELSE i + 1
             IN  <<SubSeq(s, from, i - 1)>> \o SplitLinesFrom(s, j)

SplitLines(s) == SplitLinesFrom(s, 1)

\* sep.join(parts)
RECURSIVE Join(_, _)
Join(parts, sep) ==
    IF parts = <<>> THEN <<>>
    ELSE IF Len(parts) = 1 THEN parts[1]
    ELSE parts[1] \o sep \o Join(Tail(parts), sep)

\* str(n) for n >= 0
RECURSIVE Str(_)
Str(n) == IF n < 10 THEN <<Digit[n + 1]>> ELSE Str(n \div 10) \o <<Digit[(n % 10) + 1]>>

\* ',' in s
HasComma(s) == "," \in Range(s)

\* s.split(',', 1): the text before the first ',' and the text after it
FirstComma(s) == Min({i \in 1..Len(s) : s[i] = ","})

BeforeComma(s) == SubSeq(s, 1, FirstComma(s) - 1)

AfterComma(s) == Tail_(s, FirstComma(s) + 1)

\* s.split(',')[-1]: the text after the last ','
LastField(s) == Tail_(s, Max({i \in 1..Len(s) : s[i] = ","}) + 1)

\* re.sub(r'\s+', ' ', s): every maximal run of whitespace becomes one space
CollapseSpace(s) ==
    LET kept == SelectSeq([i \in 1..Len(s) |-> i],
                          LAMBDA i : s[i] \notin Whitespace
                                        \/ i = 1 \/ s[i - 1] \notin Whitespace)
    IN  [k \in 1..Len(kept) |-> IF s[kept[k]] \in Whitespace THEN " " ELSE s[kept[k]]]

-----------------------------------------------------------------------------
(* parse_m3u                                                                *)

EXTM3U == <<"#", "E", "X", "T", "M", "3", "U">>

EXTINF == <<"#", "E", "X", "T", "I", "N", "F">>

RECURSIVE ParseLines(_, _, _)
ParseLines(lines, i, acc) ==
    IF i > Len(lines) THEN acc
    ELSE IF StartsWith(lines[i], EXTINF)
              /\ i + 1 <= Len(lines) /\ ~StartsWith(lines[i + 1], <<"#">>)
         THEN ParseLines(lines, i + 2,
                         Append(acc, [metadata |-> lines[i], url |-> Strip(lines[i + 1])]))
         ELSE ParseLines(lines, i + 1, acc)

\* lines = m3u_text.strip().splitlines()
LinesOf(text) == Only({SplitLines(stripped) : stripped \in {Strip(text)}})

\* parse_m3u without the test of line 25 (for comparison: what the header
\* test contributes)
parse_m3u_no_header_check(text) ==
    Only({ParseLines(lines, 1, <<>>) : lines \in {LinesOf(text)}})

\* parse_m3u: no entries unless the first line starts with #EXTM3U
parse_m3u(text) ==
    Only({IF lines = <<>> \/ ~StartsWith(lines[1], EXTM3U)
          THEN <<>>
          ELSE ParseLines(lines, 1, <<>>) : lines \in {LinesOf(text)}})

-----------------------------------------------------------------------------
(* The regular expressions of is_channel_match and of the rewriting         *)

Quote == "\""

\* re.search(key + r'([^"]*)"', s): the leftmost place where key (which ends with
\* the opening quote) stands and a closing quote follows; group(1) is the text
\* up to the first closing quote.  None when there is no match.
AttrStarts(s, key, ignorecase) ==
    {i \in 1..Len(s) :
        /\ IF ignorecase THEN AtIC(s, i, key) ELSE At(s, i, key)
        /\ \E j \in (i + Len(key))..Len(s) : s[j] = Quote}

AttrValue(s, key, ignorecase) ==
    LET starts == AttrStarts(s, key, ignorecase)
    IN  IF starts = {} THEN None
        ELSE LET from  == Min(starts) + Len(key)
                 close == Min({j \in from..Len(s) : s[j] = Quote})
             IN  SubSeq(s, from, close - 1)

\* re.fullmatch(re.escape(name), s, re.IGNORECASE)
FullMatch(name, s) == Len(s) = Len(name) /\ AtIC(s, 1, name)

\* \b at the gap before position p: exactly one of s[p-1], s[p] is a word character
\* (outside the string counts as a non-word character).
IsWordAt(s, p) == p >= 1 /\ p <= Len(s) /\ IsWord(s[p])

WordBoundary(s, p) == IsWordAt(s, p - 1) # IsWordAt(s, p)

\* re.search(rf'\b{re.escape(name)}\b', s, re.IGNORECASE)
SearchWord(name, s) ==
    \E i \in 1..Len(s) :
        /\ AtIC(s, i, name)
        /\ WordBoundary(s, i)
        /\ WordBoundary(s, i + Len(name))

TVG_ID == <<"t", "v", "g", "-", "i", "d", "=", "\"">>

TVG_NAME == <<"t", "v", "g", "-", "n", "a", "m", "e", "=", "\"">>

is_channel_match(name, md) ==
    \/ \E tvg_id \in {AttrValue(md, TVG_ID, TRUE)} :
           tvg_id # None /\ (FullMatch(name, tvg_id) \/ SearchWord(name, tvg_id))
    \/ \E tvg_name \in {AttrValue(md, TVG_NAME, TRUE)} :
           tvg_name # None /\ (FullMatch(name, tvg_name) \/ SearchWord(name, tvg_name))
    \/ /\ HasComma(md)
       /\ \E display_name \in {Strip(LastField(md))} :
              FullMatch(name, display_name) \/ SearchWord(name, display_name)
    \/ SearchWord(name, md)

\* re.sub(key + quote-class + [^quotes]* + quote-class, '', s): every leftmost,
\* non-overlapping match is deleted.  key stands, one of quotes follows it, and
\* the match ends at the next character of quotes.
QuotedStarts(s, p, key, quotes) ==
    {i \in p..Len(s) :
        /\ At(s, i, key)
        /\ i + Len(key) <= Len(s) /\ s[i + Len(key)] \in quotes
        /\ \E j \in (i + Len(key) + 1)..Len(s) : s[j] \in quotes}

RECURSIVE RemoveAttrFrom(_, _, _, _)
RemoveAttrFrom(s, p, key, quotes) ==
    Only({IF starts = {} THEN Tail_(s, p)
          ELSE LET i     == Min(starts)
                   close == Min({j \in (i + Len(key) + 1)..Len(s) : s[j] \in quotes})
               IN  SubSeq(s, p, i - 1) \o RemoveAttrFrom(s, close + 1, key, quotes) :
             starts \in {QuotedStarts(s, p, key, quotes)}})

RemoveAttr(s, key, quotes) == RemoveAttrFrom(s, 1, key, quotes)

\* re.sub(r'\s+', ' ', s).strip()
Tidy(s) == Only({Strip(collapsed) : collapsed \in {CollapseSpace(s)}})

\* parts[0] + attr + ',' + parts[1] when the line has a ',', else line + attr
InsertBeforeComma(md, attr) ==
    IF HasComma(md)
    THEN BeforeComma(md) \o attr \o <<",">> \o AfterComma(md)
    ELSE md \o attr

extract_tvg_name(md) == AttrValue(md, TVG_NAME, FALSE)

set_group_title(md, title) ==
    Only({InsertBeforeComma(cleaned, <<" ", "g", "r", "o", "u", "p", "-", "t", "i", "t", "l", "e", "=", "\"">> \o title \o <<"\"">>) :
             cleaned \in {Tidy(removed) :
                 removed \in {RemoveAttr(md, <<"g", "r", "o", "u", "p", "-", "t", "i", "t", "l", "e", "=">>, {"'", Quote})}}})

\* the suffix '_<U+6E90>{source_index}'
SourceMark(i) == <<"_", "U+6E90">> \o Str(i)

generate_unique_tvg_name(md, i) ==
    Only({IF original_tvg_name # None /\ original_tvg_name # <<>>
          THEN Only({InsertBeforeComma(cleaned,
                         <<" ", "t", "v", "g", "-", "n", "a", "m", "e", "=", "\"">> \o original_tvg_name \o SourceMark(i) \o <<"\"">>) :
                        cleaned \in {Tidy(removed) :
                            removed \in {RemoveAttr(md, <<"t", "v", "g", "-", "n", "a", "m", "e", "=">>, {Quote})}}})
          ELSE InsertBeforeComma(md, <<" ", "t", "v", "g", "-", "n", "a", "m", "e", "=", "\"", "U+9891", "U+9053">> \o SourceMark(i) \o <<"\"">>) :
             original_tvg_name \in {extract_tvg_name(md)}})

\* generate_m3u_file, the body of 'for i, url in enumerate(urls)' up to the
\* metadata line it writes; has_md is 'channel_name in channel_metadata_map'.
RewrittenLine(name, has_md, md, title, i) ==
    IF has_md
    THEN Only({generate_unique_tvg_name(grouped, i + 1) :
                  grouped \in {IF title # None /\ title # <<>>
                               THEN set_group_title(md, title) ELSE md}})
    ELSE IF title # None /\ title # <<>>
         THEN <<"#", "E", "X", "T", "I", "N", "F", ":", "-", "1", " ", "g", "r", "o", "u", "p", "-", "t", "i", "t", "l", "e", "=", "\"">> \o title \o <<"\"", " ", "t", "v", "g", "-", "n", "a", "m", "e", "=", "\"">> \o name
                  \o SourceMark(i + 1) \o <<"\"", ",", " ">> \o name
         ELSE <<"#", "E", "X", "T", "I", "N", "F", ":", "-", "1", " ", "t", "v", "g", "-", "n", "a", "m", "e", "=", "\"">> \o name \o SourceMark(i + 1) \o <<"\"", ",", " ">> \o name

-----------------------------------------------------------------------------
(* Specification of parse_m3u alone: the text is any sequence of at most    *)
(* MaxLines lines of the kinds below, joined by line feeds.                 *)

MaxLines == 4

LineKinds ==
    { EXTM3U,                  \* the header
      <<"#", "E", "X", "T", "I", "N", "F", ":", "-", "1", ",", "A">>,          \* a tag-info line
      <<"#", "E", "X", "T", "V", "L", "C", "O", "P", "T", ":", "x">>,          \* another marker line
      <<"u", "1">>,                    \* a URL
      <<>>,                    \* a blank line
      <<" ", " ">> }                   \* a whitespace-only line

TextInputs ==
    {Join(ls, <<"\n">>) : ls \in UNION {[1..n -> LineKinds] : n \in 1..MaxLines}}

Idle ==
    /\ channel_groups = <<>> /\ sources = <<>> /\ channel_list = <<>>
    /\ channel_to_group = <<>> /\ duplicate_channels = <<>> /\ src_idx = 0
    /\ fetched = <<>> /\ found_channel_urls = <<>> /\ channel_metadata_map = <<>>
    /\ found_channels = {} /\ missing_channel_list = <<>>
    /\ simple_m3u = <<>> /\ emitted = <<>> /\ report = <<>>

InitParse ==
    /\ pc = "call"
    /\ m3u_text \in TextInputs
    /\ parsed_channels = <<>>
    /\ Idle
    /\ channel_name = None /\ metadata = None /\ is_match = None
    /\ group_title = None /\ source_index = 0 /\ new_metadata = None

ParseM3u ==
    /\ pc = "call"
    /\ pc' = "return"
    /\ parsed_channels' = parse_m3u(m3u_text)
    /\ UNCHANGED <<runVars, m3u_text, matchVars, metadata, rewriteVars>>

SpecParse == InitParse /\ [][ParseM3u]_vars

\* C4: every entry parse_m3u returns has a non-empty url.
C4_EveryEntryHasUrl ==
    pc = "return"
        => \A k \in 1..Len(parsed_channels) : parsed_channels[k].url # <<>>

-----------------------------------------------------------------------------
(* Specification of is_channel_match alone: the requested name and the      *)
(* attributes and display name of the metadata line are drawn from the sets *)
(* below.                                                                   *)

NameInputs == {<<"C", "C", "T", "V", "1">>, <<"c", "c", "t", "v", "1">>, <<"C", "C", "T", "V", "5", "+">>}

AttrInputs == {None, <<"C", "C", "T", "V", "1">>, <<"C", "C", "T", "V", "1", "0">>, <<"C", "C", "T", "V", "5", "+", "H", "D">>}

DisplayInputs == {None, <<"C", "C", "T", "V", "1">>, <<"C", "C", "T", "V", "1", "0">>, <<"C", "C", "T", "V", "1", " ", "H", "D">>, <<"C", "C", "T", "V", "5", "+", "H", "D">>, <<"x">>}

\* '#EXTINF:-1 tvg-id="..." tvg-name="...",display', each part optional
MetadataLine(id, name, display) ==
    <<"#", "E", "X", "T", "I", "N", "F", ":", "-", "1">>
        \o (IF id = None THEN <<>> ELSE <<" ", "t", "v", "g", "-", "i", "d", "=", "\"">> \o id \o <<"\"">>)
        \o (IF name = None THEN <<>> ELSE <<" ", "t", "v", "g", "-", "n", "a", "m", "e", "=", "\"">> \o name \o <<"\"">>)
        \o (IF display = None THEN <<>> ELSE <<",">> \o display)

MetadataInputs ==
    {MetadataLine(id, name, display) :
        id \in AttrInputs, name \in AttrInputs, display \in DisplayInputs}

InitMatch ==
    /\ pc = "call"
    /\ channel_name \in NameInputs
    /\ metadata \in MetadataInputs
    /\ is_match = None
    /\ Idle
    /\ m3u_text = None /\ parsed_channels = <<>>
    /\ group_title = None /\ source_index = 0 /\ new_metadata = None

IsChannelMatch ==
    /\ pc = "call"
    /\ pc' = "return"
    /\ is_match' = is_channel_match(channel_name, metadata)
    /\ UNCHANGED <<runVars, parseVars, channel_name, metadata, rewriteVars>>

SpecMatch == InitMatch /\ [][IsChannelMatch]_vars

\* the places where the name stands in the line, case ignored
Occurrences(name, s) == {i \in 1..Len(s) : AtIC(s, i, name)}

\* the occurrence at i is a proper part of a longer token: a word character
\* stands immediately before it or immediately after it
InsideLongerToken(name, s, i) == IsWordAt(s, i - 1) \/ IsWordAt(s, i + Len(name))

\* C3: when the requested name occurs in the metadata line only as a proper
\* part of a longer token, is_channel_match returns false.
C3_RejectsPartOfLongerToken ==
    (/\ pc = "return"
     /\ \A i \in Occurrences(channel_name, metadata) :
            InsideLongerToken(channel_name, metadata, i))
        => is_match = FALSE

-----------------------------------------------------------------------------
(* Specification of the rewriting of one output line: set_group_title       *)
(* followed by generate_unique_tvg_name, as generate_m3u_file composes them *)
(* for a name that has a group.                                             *)

MaxIndex == 2

TvgNameInputs == {None, <<"A">>, <<"A", ",", "B">>}

OldGroupInputs == {<<>>, <<" ", "g", "r", "o", "u", "p", "-", "t", "i", "t", "l", "e", "=", "\"", "O", "l", "d", "\"">>, <<" ", "g", "r", "o", "u", "p", "-", "t", "i", "t", "l", "e", "=", "'", "O", "l", "d", "'">>}

TitleInputs == {<<"N", "e", "w", "s">>, <<"N", "e", "w", "s", ",", "H", "D">>}

BaseMetadataInputs ==
    {<<"#", "E", "X", "T", "I", "N", "F", ":", "-", "1">>
        \o (IF name = None THEN <<>> ELSE <<" ", "t", "v", "g", "-", "n", "a", "m", "e", "=", "\"">> \o name \o <<"\"">>)
        \o old
        \o (IF display = None THEN <<>> ELSE <<",">> \o display) :
        name \in TvgNameInputs, old \in OldGroupInputs, display \in {None, <<"A">>}}

InitRewrite ==
    /\ pc = "call"
    /\ metadata \in BaseMetadataInputs
    /\ group_title \in TitleInputs
    /\ source_index \in 1..MaxIndex
    /\ new_metadata = None
    /\ Idle
    /\ m3u_text = None /\ parsed_channels = <<>>
    /\ channel_name = None /\ is_match = None

Rewrite ==
    /\ pc = "call"
    /\ pc' = "return"
    /\ \E grouped \in {set_group_title(metadata, group_title)} :
           new_metadata' = generate_unique_tvg_name(grouped, source_index)
    /\ UNCHANGED <<runVars, parseVars, matchVars, metadata, group_title, source_index>>

SpecRewrite == InitRewrite /\ [][Rewrite]_vars

\* the attributes key<quote>value<quote> of a line, left to right, as the
\* patterns of set_group_title and generate_unique_tvg_name recognise them
RECURSIVE AttrSpans(_, _, _, _)
AttrSpans(s, p, key, quotes) ==
    IF p > Len(s) THEN <<>>
    ELSE LET open   == p + Len(key)
             closes == {j \in (open + 1)..Len(s) : s[j] \in quotes}
         IN  IF At(s, p, key) /\ open <= Len(s) /\ s[open] \in quotes /\ closes # {}
             THEN <<[from |-> p, open |-> open, close |-> Min(closes)]>>
                      \o AttrSpans(s, Min(closes) + 1, key, quotes)
             ELSE AttrSpans(s, p + 1, key, quotes)

SpanValue(s, a) == SubSeq(s, a.open + 1, a.close - 1)

EndsWith(s, p) == Len(s) >= Len(p) /\ Tail_(s, Len(s) - Len(p) + 1) = p

\* C7: the line written has exactly one group attribute, its value is the
\* group label, and the name attribute that carries the source-index marker
\* lies outside the group attribute.
C7_OneGroupAttributeWithLabel ==
    pc = "return" =>
        LET groups == AttrSpans(new_metadata, 1, <<"g", "r", "o", "u", "p", "-", "t", "i", "t", "l", "e", "=">>, {"'", Quote})
            names  == AttrSpans(new_metadata, 1, <<"t", "v", "g", "-", "n", "a", "m", "e", "=">>, {Quote})
        IN  /\ Len(groups) = 1
            /\ SpanValue(new_metadata, groups[1]) = group_title
            /\ \E k \in 1..Len(names) :
                   /\ EndsWith(SpanValue(new_metadata, names[k]), SourceMark(source_index))
                   /\ \/ names[k].close < groups[1].from
                      \/ names[k].from > groups[1].close

-----------------------------------------------------------------------------
(* Python dicts: a function whose domain is the set of keys present.        *)

EmptyDict == <<>>

Put(d, k, v) == [x \in (DOMAIN d) \cup {k} |-> IF x = k THEN v ELSE d[x]]

\* d[k] of a defaultdict(list), read without inserting
GetList(d, k) == IF k \in DOMAIN d THEN d[k] ELSE <<>>

-----------------------------------------------------------------------------
(* load_channels                                                            *)

\* channel_to_group[channel] = group_title
AssignGroup(to_group, channel, title) == Put(to_group, channel, title)

RECURSIVE LoadGroups(_, _, _, _)
LoadGroups(groups, g, c, acc) ==
    IF g > Len(groups) THEN acc
    ELSE IF c > Len(groups[g].channels) THEN LoadGroups(groups, g + 1, 1, acc)
    ELSE LET channel == groups[g].channels[c]
             title   == groups[g].group_title
         IN  LoadGroups(groups, g, c + 1,
                 [channel_list |-> Append(acc.channel_list, channel),
                  duplicate_channels |->
                      IF channel \in DOMAIN acc.channel_to_group
                      THEN Put(acc.duplicate_channels, channel,
                               Append(GetList(acc.duplicate_channels, channel), title))
                      ELSE acc.duplicate_channels,
                  channel_to_group |-> AssignGroup(acc.channel_to_group, channel, title)])

load_channels(groups) ==
    LoadGroups(groups, 1, 1,
        [channel_list |-> <<>>, channel_to_group |-> EmptyDict,
         duplicate_channels |-> EmptyDict])

-----------------------------------------------------------------------------
(* find_channels: the body of 'for source in sources' after a non-empty     *)
(* fetch                                                                    *)

\* an append that skips a URL already in the list (for comparison: the source
\* has no such test)
AppendUrlOnce(urls, url) == IF url \in Range(urls) THEN urls ELSE Append(urls, url)

\* found_channel_urls[channel_name].append(entry["url"])
AppendUrl(urls, url) == Append(urls, url)

\* a store without the test of line 192 (for comparison: the last match wins)
SaveMetadataAlways(map, name, md) == Put(map, name, md)

\* if channel_name not in channel_metadata_map: channel_metadata_map[...] = ...
SaveMetadata(map, name, md) == IF name \in DOMAIN map THEN map ELSE Put(map, name, md)

\* the body of 'for channel_name in channel_list': the first entry of the
\* source that matches is used, then 'break'
SearchName(name, entries, acc) ==
    LET matches == {j \in 1..Len(entries) : is_channel_match(name, entries[j].metadata)}
    IN  IF matches = {} THEN acc
        ELSE LET entry == entries[Min(matches)]
             IN  [urls  |-> Put(acc.urls, name,
                                AppendUrl(GetList(acc.urls, name), entry.url)),
                  meta  |-> SaveMetadata(acc.meta, name, entry.metadata),
                  found |-> acc.found \cup {name}]

RECURSIVE SearchSourceFor(_, _, _, _)
SearchSourceFor(names, k, entries, acc) ==
    IF k > Len(names) THEN acc
    ELSE Only({SearchSourceFor(names, k + 1, entries, next) :
                  next \in {SearchName(names[k], entries, acc)}})

-----------------------------------------------------------------------------
(* generate_m3u_file                                                        *)

\* channel_to_group.get(channel_name) if channel_to_group else None
GroupOf(to_group, name) ==
    IF DOMAIN to_group # {} /\ name \in DOMAIN to_group THEN to_group[name] ELSE None

\* the entries written for the name at position k of channel_list
EntriesOf(names, k, urls, meta, to_group) ==
    LET name == names[k]
    IN  IF name \notin DOMAIN urls THEN <<>>
        ELSE [n \in 1..Len(urls[name]) |->
                 [channel_name |-> name, position |-> k, i |-> n - 1,
                  metadata |-> RewrittenLine(name, name \in DOMAIN meta,
                                   IF name \in DOMAIN meta THEN meta[name] ELSE None,
                                   GroupOf(to_group, name), n - 1),
                  url |-> urls[name][n]]]

RECURSIVE EntriesFrom(_, _, _, _, _)
EntriesFrom(names, k, urls, meta, to_group) ==
    IF k > Len(names) THEN <<>>
    ELSE EntriesOf(names, k, urls, meta, to_group)
             \o EntriesFrom(names, k + 1, urls, meta, to_group)

\* f.write(f"{metadata}\n"); f.write(f"{url}\n") for every entry
RECURSIVE FileLines(_)
FileLines(entries) ==
    IF entries = <<>> THEN <<>>
    ELSE <<entries[1].metadata, entries[1].url>> \o FileLines(Tail(entries))

-----------------------------------------------------------------------------
(* print_report                                                             *)

RECURSIVE TotalUrls(_, _)
TotalUrls(urls, keys) ==
    IF keys = {} THEN 0
    ELSE LET k == CHOOSE x \in keys : TRUE
         IN  Len(urls[k]) + TotalUrls(urls, keys \ {k})

-----------------------------------------------------------------------------
(* The run of main().  The configuration files and what every fetch returns *)
(* are the inputs.                                                          *)

MaxGroups == 2

MaxListed == 3

MaxSources == 2

Names == {<<"A">>, <<"B">>}

GroupTitle(g) == <<"G">> \o Str(g)

SourceAddress(s) == <<"h", "t", "t", "p", ":", "/", "/", "s">> \o Str(s)

ChannelSeqs == UNION {[1..n -> Names] : n \in 1..MaxListed}

RECURSIVE Listed(_)
Listed(chans) == IF chans = <<>> THEN 0 ELSE Len(chans[1]) + Listed(Tail(chans))

\* channels.json: at most MaxGroups groups listing at most MaxListed names in all
ChannelGroupsInputs ==
    {[g \in 1..Len(chans) |-> [group_title |-> GroupTitle(g), channels |-> chans[g]]] :
        chans \in {c \in UNION {[1..n -> ChannelSeqs] : n \in 0..MaxGroups} :
                       Listed(c) <= MaxListed}}

\* sources.json
SourcesInputs == {[s \in 1..n |-> SourceAddress(s)] : n \in 0..MaxSources}

EntryA1 == <<<<"#", "E", "X", "T", "I", "N", "F", ":", "-", "1", " ", "t", "v", "g", "-", "i", "d", "=", "\"", "A", "\"", ",", "x">>, <<"u", "1">>>>

EntryA2 == <<<<"#", "E", "X", "T", "I", "N", "F", ":", "-", "1", ",", "A">>, <<"u", "2">>>>

EntryB == <<<<"#", "E", "X", "T", "I", "N", "F", ":", "-", "1", " ", "t", "v", "g", "-", "n", "a", "m", "e", "=", "\"", "B", "\"", ",", "B">>, <<"u", "1">>>>

\* what a source answers: playlists with and without the header line
ResponseTexts ==
    { Join(<<EXTM3U>> \o EntryA1 \o EntryB, <<"\n">>),
      Join(<<EXTM3U>> \o EntryA2 \o EntryA1, <<"\n">>),
      Join(EntryA1 \o EntryB, <<"\n">>) }

Init ==
    /\ pc = "load_channels"
    /\ channel_groups \in ChannelGroupsInputs
    /\ sources \in SourcesInputs
    /\ channel_list = <<>> /\ channel_to_group = EmptyDict
    /\ duplicate_channels = EmptyDict
    /\ src_idx = 0 /\ fetched = <<>>
    /\ found_channel_urls = EmptyDict /\ channel_metadata_map = EmptyDict
    /\ found_channels = {} /\ missing_channel_list = <<>>
    /\ simple_m3u = <<>> /\ emitted = <<>> /\ report = <<>>
    /\ m3u_text = None /\ parsed_channels = <<>>
    /\ channel_name = None /\ metadata = None /\ is_match = None
    /\ group_title = None /\ source_index = 0 /\ new_metadata = None

pureVars == <<parseVars, matchVars, metadata, rewriteVars>>

\* main: load_channels(), then 'if not channel_list: return'
LoadChannels ==
    /\ pc = "load_channels"
    /\ \E r \in {load_channels(channel_groups)} :
           /\ channel_list' = r.channel_list
           /\ channel_to_group' = r.channel_to_group
           /\ duplicate_channels' = r.duplicate_channels
           /\ pc' = IF r.channel_list = <<>> THEN "done" ELSE "load_sources"
    /\ UNCHANGED <<channel_groups, sources, src_idx, fetched, found_channel_urls,
                   channel_metadata_map, found_channels, missing_channel_list,
                   simple_m3u, emitted, report, pureVars>>

\* main: load_sources(), then 'if not sources: return'
LoadSources ==
    /\ pc = "load_sources"
    /\ pc' = IF sources = <<>> THEN "done" ELSE "find_channels"
    /\ UNCHANGED <<runVars, pureVars>>

\* find_channels, one source: fetch_raw_m3u raised or the body was empty, so it
\* returned "" and the loop continues
SkipSource ==
    /\ pc = "find_channels"
    /\ src_idx < Len(sources)
    /\ src_idx' = src_idx + 1
    /\ fetched' = Append(fetched, <<>>)
    /\ UNCHANGED <<pc, channel_groups, sources, channel_list, channel_to_group,
                   duplicate_channels, found_channel_urls, channel_metadata_map,
                   found_channels, missing_channel_list, simple_m3u, emitted,
                   report, pureVars>>

\* find_channels, one source: the text is parsed and every requested name is
\* searched in its entries
SearchSource ==
    /\ pc = "find_channels"
    /\ src_idx < Len(sources)
    /\ \E text \in ResponseTexts :
         \E source_channels \in {parse_m3u(text)} :
           \E r \in {SearchSourceFor(channel_list, 1, source_channels,
                         [urls |-> found_channel_urls, meta |-> channel_metadata_map,
                          found |-> found_channels])} :
               /\ fetched' = Append(fetched, text)
               /\ found_channel_urls' = r.urls
               /\ channel_metadata_map' = r.meta
               /\ found_channels' = r.found
    /\ src_idx' = src_idx + 1
    /\ UNCHANGED <<pc, channel_groups, sources, channel_list, channel_to_group,
                   duplicate_channels, missing_channel_list, simple_m3u, emitted,
                   report, pureVars>>

\* find_channels: after the last source, the missing names
FindChannelsReturn ==
    /\ pc = "find_channels"
    /\ src_idx = Len(sources)
    /\ missing_channel_list' =
           SelectSeq(channel_list, LAMBDA ch : ch \notin found_channels)
    /\ pc' = "generate_m3u_file"
    /\ UNCHANGED <<channel_groups, sources, channel_list, channel_to_group,
                   duplicate_channels, src_idx, fetched, found_channel_urls,
                   channel_metadata_map, found_channels, simple_m3u, emitted,
                   report, pureVars>>

GenerateM3uFile ==
    /\ pc = "generate_m3u_file"
    /\ \E entries \in {EntriesFrom(channel_list, 1, found_channel_urls,
                                    channel_metadata_map, channel_to_group)} :
           /\ simple_m3u' = <<EXTM3U>> \o FileLines(entries)
           /\ emitted' = [k \in 1..Len(entries) |->
                             [channel_name |-> entries[k].channel_name,
                              position |-> entries[k].position,
                              i |-> entries[k].i]]
    /\ pc' = "print_report"
    /\ UNCHANGED <<channel_groups, sources, channel_list, channel_to_group,
                   duplicate_channels, src_idx, fetched, found_channel_urls,
                   channel_metadata_map, found_channels, missing_channel_list,
                   report, pureVars>>

PrintReport ==
    /\ pc = "print_report"
    /\ report' = [found_count |-> Cardinality(DOMAIN found_channel_urls),
                  total_count |-> Len(channel_list),
                  total_urls  |-> TotalUrls(found_channel_urls, DOMAIN found_channel_urls),
                  missing     |-> Len(missing_channel_list)]
    /\ pc' = "done"
    /\ UNCHANGED <<channel_groups, sources, channel_list, channel_to_group,
                   duplicate_channels, src_idx, fetched, found_channel_urls,
                   channel_metadata_map, found_channels, missing_channel_list,
                   simple_m3u, emitted, pureVars>>

Next ==
    \/ LoadChannels
    \/ LoadSources
    \/ SkipSource
    \/ SearchSource
    \/ FindChannelsReturn
    \/ GenerateM3uFile
    \/ PrintReport

Spec == Init /\ [][Next]_vars

-----------------------------------------------------------------------------
(* What the claims speak of.                                                *)

\* everything a fetch can return
FetchInputs == ResponseTexts \cup {<<>>}

NoMatch == [found |-> FALSE, metadata |-> <<>>, url |-> <<>>]

\* the first entry of a parsed source that matches the name, in source order
FirstMatch(name, entries) ==
    LET first == {j \in 1..Len(entries) :
                     /\ is_channel_match(name, entries[j].metadata)
                     /\ \A h \in 1..(j - 1) : ~is_channel_match(name, entries[h].metadata)}
    IN  IF first = {} THEN NoMatch
        ELSE [found |-> TRUE,
              metadata |-> entries[Only(first)].metadata,
              url |-> entries[Only(first)].url]

FirstMatchTable ==
    [text \in FetchInputs |-> [name \in Names |-> FirstMatch(name, parse_m3u(text))]]

\* what source number s (in processing order) offered for the name
MatchedIn(name, s) == FirstMatchTable[fetched[s]][name]

MatchingSources(name) == {s \in 1..Len(fetched) : MatchedIn(name, s).found}

SourcesWithUrl(name, u) == {s \in MatchingSources(name) : MatchedIn(name, s).url = u}

\* the positions at which channel_list lists the name
Listings(name) == {k \in 1..Len(channel_list) : channel_list[k] = name}

Count(seq, x) == Cardinality({i \in 1..Len(seq) : seq[i] = x})

\* simple.m3u has been written: line 1 is the header, entry k is lines 2k, 2k+1
Written == pc \in {"print_report", "done"} /\ simple_m3u # <<>>

EntryLine(k) == simple_m3u[2 * k]

EntryUrl(k) == simple_m3u[2 * k + 1]

EntriesWith(name, u) ==
    {k \in 1..Len(emitted) : emitted[k].channel_name = name /\ EntryUrl(k) = u}

\* a source from which find_channels gets nothing: the fetch failed or was
\* empty, or the text does not start with the header
SourceFails(text) == text = <<>> \/ ~StartsWith(Strip(text), EXTM3U)

FirstPosition(name) == Min(Listings(name))

Indexes(n) == [i \in 1..n |-> i]

\* the URLs of the entries written for the name, in output order
EmittedUrls(name) ==
    LET ks == SelectSeq(Indexes(Len(emitted)), LAMBDA k : emitted[k].channel_name = name)
    IN  [n \in 1..Len(ks) |-> EntryUrl(ks[n])]

\* the URLs the sources offered for the name, in processing order
DiscoveredUrls(name) ==
    LET ss == SelectSeq(Indexes(Len(fetched)), LAMBDA s : MatchedIn(name, s).found)
    IN  [n \in 1..Len(ss) |-> MatchedIn(name, ss[n]).url]

\* C2: the entries are grouped by name in the order of the requested-name list,
\* and the URLs of one name are in discovery order.
C2_GroupedInListOrder ==
    Written =>
        /\ \A k, l \in 1..Len(emitted) :
               k < l => FirstPosition(emitted[k].channel_name)
                            <= FirstPosition(emitted[l].channel_name)
        /\ \A name \in Range(channel_list) : EmittedUrls(name) = DiscoveredUrls(name)

GroupsOf(name) ==
    {g \in 1..Len(channel_groups) : name \in Range(channel_groups[g].channels)}

FirstGroup(name) == channel_groups[Min(GroupsOf(name))].group_title

HasGroupAttribute(line, title) ==
    \E p \in 1..Len(line) : At(line, p, <<" ", "g", "r", "o", "u", "p", "-", "t", "i", "t", "l", "e", "=", "\"">> \o title \o <<"\"">>)

\* C5: a name listed under several groups is reported and keeps the first group,
\* in the mapping and in every entry written for it.
C5_FirstGroupWins ==
    pc # "load_channels" =>
        \A name \in Range(channel_list) :
            /\ channel_to_group[name] = FirstGroup(name)
            /\ Cardinality(GroupsOf(name)) > 1 => name \in DOMAIN duplicate_channels
            /\ Written =>
                   \A k \in 1..Len(emitted) :
                       emitted[k].channel_name = name
                           => HasGroupAttribute(EntryLine(k), FirstGroup(name))

\* C6: no two entries written for a name that has two or more URLs carry the
\* same metadata line.
C6_EntriesOfNameDiffer ==
    Written =>
        \A k, l \in 1..Len(emitted) :
            (/\ k < l
             /\ emitted[k].channel_name = emitted[l].channel_name
             /\ Len(found_channel_urls[emitted[k].channel_name]) >= 2)
                => EntryLine(k) # EntryLine(l)

\* C8: a source that fails changes nothing that was found, the loop goes on to
\* the next source, every source is iterated before the file is generated, and
\* the run ends with the file and the report written.
C8_FailedSourceStep ==
    (/\ pc = "find_channels"
     /\ src_idx' = src_idx + 1
     /\ SourceFails(fetched'[src_idx']))
        => /\ found_channel_urls' = found_channel_urls
           /\ channel_metadata_map' = channel_metadata_map
           /\ found_channels' = found_channels
           /\ pc' = "find_channels"

C8_AllSourcesIterated ==
    /\ Len(fetched) = src_idx
    /\ pc \in {"generate_m3u_file", "print_report"} => src_idx = Len(sources)
    /\ pc = "done" /\ channel_list # <<>> /\ sources # <<>>
           => /\ src_idx = Len(sources)
              /\ simple_m3u # <<>> /\ simple_m3u[1] = EXTM3U
              /\ report # <<>>

C8_SourceFailureIsLocal == [][C8_FailedSourceStep]_vars /\ []C8_AllSourcesIterated

\* a source failed, a later one was searched and gave something, the run ended
C8_Witness ==
    /\ pc = "done"
    /\ report # <<>>
    /\ DOMAIN found_channel_urls # {}
    /\ \E s \in 1..(Len(fetched) - 1) :
           /\ fetched[s] # <<>>
           /\ SourceFails(fetched[s])
           /\ ~SourceFails(fetched[s + 1])
           /\ \E name \in Range(channel_list) : MatchedIn(name, s + 1).found

\* C9: the metadata kept for a name is that of its first match, over the
\* sources in processing order and the entries in source order, and every line
\* written for the name is rewritten from it.
C9_FirstMatchSnapshot ==
    \A name \in Range(channel_list) :
        IF MatchingSources(name) = {}
        THEN name \notin DOMAIN channel_metadata_map
        ELSE /\ name \in DOMAIN channel_metadata_map
             /\ channel_metadata_map[name]
                    = MatchedIn(name, Min(MatchingSources(name))).metadata
             /\ pc = "done" =>
                    \A k \in 1..Len(emitted) :
                        emitted[k].channel_name = name
                            => EntryLine(k)
                                   = RewrittenLine(name, TRUE,
                                         MatchedIn(name, Min(MatchingSources(name))).metadata,
                                         GroupOf(channel_to_group, name), emitted[k].i)

\* two sources matched a name with different metadata, and the first is kept
C9_Witness ==
    /\ pc = "done"
    /\ \E name \in Range(channel_list) :
           \E s1, s2 \in MatchingSources(name) :
               /\ s1 < s2
               /\ MatchedIn(name, s1).metadata # MatchedIn(name, s2).metadata
               /\ channel_metadata_map[name] = MatchedIn(name, s1).metadata
               /\ \E k \in 1..Len(emitted) : emitted[k].channel_name = name /\ emitted[k].i = 1

\* C10: after k sources no name has more than k URLs.
C10_AtMostOneUrlPerSource ==
    \A name \in DOMAIN found_channel_urls : Len(found_channel_urls[name]) <= src_idx

====
